---- MODULE Spec2Model ----
(***************************************************************************)
(* Model of the background-remover component.                              *)
(*                                                                         *)
(*   Spec       : the component's state (originalImage, processedImage,     *)
(*                loading, model, ...) under the user's clicks and the     *)
(*                completions of the asynchronous operations, for the      *)
(*                three versions of the component.                         *)
(*   SpecRefine : refineEdges (the edge-restoration pass) applied to       *)
(*                arbitrary masked pixel data.                             *)
(*   SpecPipe   : the pixel pipeline of the edge-refinement variant of     *)
(*                removeBackground: draw, segment, createEnhancedMask,     *)
(*                applyMaskWithSmoothing, toDataURL.                       *)
(*   SpecRebin  : the re-binarization loop of applyEdgeSmoothing applied   *)
(*                once and once more to arbitrary pixel data.              *)
(*   SpecObserved : the component up to one observed call of a handler,    *)
(*                whose arguments and the state it was made in are         *)
(*                recorded; nothing is explored after the observed call.   *)
(*                                                                         *)
(* Pixel buffers are functions 0..(width*height-1) -> [r, g, b, a]; the    *)
(* flat RGBA byte index of the source, (y*width + x)*4 + c, is the pair    *)
(* (pixel index y*width + x, channel c).                                   *)
(***************************************************************************)
EXTENDS Integers, FiniteSets, Sequences, TLC

VARIABLES
  variant,        \* which version of the component is running
  originalImage,  \* 0 = null, else the id of the uploaded file (its data URL)
  processedImage, \* 0 = null, else the id of the image the result shows
  loading,
  model,          \* TRUE = non-null
  modelLoading,
  error,          \* TRUE = non-null
  canvas,         \* id of the image last drawn on canvasRef.current, 0 = none
  onResults,      \* MediaPipe: request whose onResults callback is registered
  reqs,           \* the removeBackground calls made so far, in order
  reads,          \* file ids with a FileReader read pending
  loads,          \* number of loadModel calls pending
  nloads,         \* number of loadModel calls made so far
  rstage,       \* SpecRefine: "in" before refineEdges is called, "out" after
  rw, rh,       \* width and height passed to refineEdges
  rOriginal,    \* originalData.data
  rMasked,      \* maskedData.data
  rResult,      \* data of the ImageData refineEdges returns
  pstage,       \* SpecPipe: position in removeBackground
  pw, ph,       \* img.width, img.height
  pimg,         \* pixels of the decoded source image
  refinement,   \* the `refinement' state of the component
  filterSupported, \* whether the 2D context implements ctx.filter
  segmentation, \* segmentation.data: 1 = person, 0 = not a person
  pCanvas,      \* backing store of canvasRef.current (premultiplied)
  pMaskCanvas,  \* backing store of maskCanvas (premultiplied)
  pResult,      \* pixels encoded in resultUrl
  pOriginalCanvas, \* backing store of originalCanvasRef.current
  pOriginalData,   \* originalImageData.data
  pMaskedData,     \* maskedData.data
  pdims,           \* <<width, height>> of every canvas and ImageData made so far
  obs,          \* SpecObserved: the observed handler call, if one was made
  bstage,       \* SpecRebin: "in", "once", "twice"
  bData,        \* imageData.data before the re-binarization loop
  bOnce,        \* after the loop has run once
  bTwice        \* after it has run once more

rvars == <<rstage, rw, rh, rOriginal, rMasked, rResult>>
pvars == <<pstage, pw, ph, pimg, refinement, filterSupported, segmentation,
           pCanvas, pMaskCanvas, pResult, pOriginalCanvas, pOriginalData,
           pMaskedData, pdims>>
uvars == <<variant, originalImage, processedImage, loading, model, modelLoading,
           error, canvas, onResults, reqs, reads, loads, nloads>>
ovars == <<obs>>
bvars == <<bstage, bData, bOnce, bTwice>>
vars == <<uvars, rvars, pvars, ovars, bvars>>

(***************************************************************************)
(* Bounds                                                                  *)
(***************************************************************************)
\* Spec: the user has MaxFiles distinct files to upload,
MaxFiles == 2
\* clicks Remove Background at most MaxRequests times,
MaxRequests == 2
\* and loadModel is called at most MaxLoads times.
MaxLoads == 2
\* SpecRefine draws every image with width*height <= MaxPixels.
MaxPixels == 12
\* SpecPipe draws every image of width and height in 1..MaxDim.
MaxDim == 5
\* SpecPipe: a segmentation labels every pixel alike except at most
\* MaxFlipped pixels.
MaxFlipped == 1
\* SpecRebin: the pixel data has up to MaxRebinPixels pixels.
MaxRebinPixels == 2

(***************************************************************************)
(* Pixels                                                                  *)
(***************************************************************************)
Pixel(r0, g0, b0, a0) == [r |-> r0, g |-> g0, b |-> b0, a |-> a0]

Indices(width, height) == 0 .. (width * height - 1)

(***************************************************************************)
(* refineEdges                                                             *)
(***************************************************************************)
MutInLoopRange(x, y, width, height) ==
  /\ y >= 0 /\ y < height - 1
  /\ x >= 1 /\ x < width - 1

\* for (let y = 1; y < height - 1; y++) for (let x = 1; x < width - 1; x++)
InLoopRange(x, y, width, height) ==
  /\ y >= 1 /\ y < height - 1
  /\ x >= 1 /\ x < width - 1

MutIsTransparent(p) == p.a <= 128

\* if (masked[i + 3] === 0)
IsTransparent(p) == p.a = 0

\* if (masked[ni + 3] > 128)
IsOpaqueNeighbor(p) == p.a > 128

\* The dy, dx loops run over -1..1 each, the pixel itself included.  ni is a
\* flat index: a read outside the typed array yields undefined, and
\* undefined > 128 is false.
opaqueNeighbors(masked, x, y, width) ==
  Cardinality({ d \in (-1 .. 1) \X (-1 .. 1) :
                  LET ni == (y + d[2]) * width + (x + d[1])
                  IN  ni \in DOMAIN masked /\ IsOpaqueNeighbor(masked[ni]) })

MutMostNeighborsOpaque(n) == n >= 4

\* if (opaqueNeighbors >= 5)
MostNeighborsOpaque(n) == n >= 5

\* result[i..i+2] = original[i..i+2]; result[i + 3] = 255
RestoredPixel(orig, old) == Pixel(orig.r, orig.g, orig.b, 255)

refineEdges(original, masked, width, height) ==
  [ i \in Indices(width, height) |->
      LET x == i % width
          y == i \div width
      IN  IF /\ InLoopRange(x, y, width, height)
             /\ IsTransparent(masked[i])
             /\ MostNeighborsOpaque(opaqueNeighbors(masked, x, y, width))
          THEN RestoredPixel(original[i], masked[i])
          ELSE masked[i] ]

\* The two input arrays of refineEdges when it returns.
MutrefineEdgesInputs(original, masked, width, height) ==
  [original |-> original,
   masked   |-> refineEdges(original, masked, width, height)]

\* const result = new Uint8ClampedArray(masked) copies masked; the loop reads
\* original[...] and masked[...] and assigns result[...] only, so the array
\* returned is another one than the two passed in.
refineEdgesInputs(original, masked, width, height) ==
  [original |-> original,
   masked   |-> masked]

(***************************************************************************)
(* The 2D canvas.  A canvas backing store holds 8-bit premultiplied RGBA;  *)
(* ImageData and the encoded PNG hold 8-bit non-premultiplied RGBA.        *)
(***************************************************************************)
RoundDiv(n, d) == (2 * n + d) \div (2 * d)

Min(a, b) == IF a < b THEN a ELSE b

Premultiply(p) ==
  Pixel(RoundDiv(p.r * p.a, 255), RoundDiv(p.g * p.a, 255), RoundDiv(p.b * p.a, 255), p.a)

Unpremultiply(q) ==
  IF q.a = 0 THEN Pixel(0, 0, 0, 0)
  ELSE Pixel(Min(255, RoundDiv(q.r * 255, q.a)), Min(255, RoundDiv(q.g * 255, q.a)),
             Min(255, RoundDiv(q.b * 255, q.a)), q.a)

\* ctx.putImageData(imageData, 0, 0) on a canvas of the same size
putImageData(data) == [i \in DOMAIN data |-> Premultiply(data[i])]

\* ctx.getImageData(0, 0, width, height).data
getImageData(store) == [i \in DOMAIN store |-> Unpremultiply(store[i])]

\* ctx.drawImage(img, 0, 0) onto a freshly sized canvas
drawImage(img) == [i \in DOMAIN img |-> Premultiply(img[i])]

\* canvas.toDataURL('image/png'): the PNG holds the non-premultiplied pixels
toDataURL(store) == getImageData(store)

\* globalCompositeOperation 'source-over', premultiplied: co = cs + cd*(1 - as)
SourceOver(cs, cd) ==
  Pixel(Min(255, cs.r + RoundDiv(cd.r * (255 - cs.a), 255)),
        Min(255, cs.g + RoundDiv(cd.g * (255 - cs.a), 255)),
        Min(255, cs.b + RoundDiv(cd.b * (255 - cs.a), 255)),
        Min(255, cs.a + RoundDiv(cd.a * (255 - cs.a), 255)))

\* globalCompositeOperation 'destination-in', premultiplied: co = cd * as
DestinationIn(cd, cs) ==
  Pixel(RoundDiv(cd.r * cs.a, 255), RoundDiv(cd.g * cs.a, 255),
        RoundDiv(cd.b * cs.a, 255), RoundDiv(cd.a * cs.a, 255))

\* Weight of the offset (dx, dy) in the blur kernel: the separable
\* binomial kernel (1 2 1)/4, the 3x3 discretisation of a Gaussian of
\* standard deviation 1px.  The weights sum to 16.
BlurWeight(dx, dy) == (2 - (IF dx < 0 THEN -dx ELSE dx)) * (2 - (IF dy < 0 THEN -dy ELSE dy))

\* One channel of the blurred image at (x, y); outside the canvas is
\* transparent black.
BlurChannel(store, c, x, y, width, height) ==
  LET Offs == (-1 .. 1) \X (-1 .. 1)
      At(d) == IF x + d[1] \in 0 .. (width - 1) /\ y + d[2] \in 0 .. (height - 1)
               THEN store[(y + d[2]) * width + (x + d[1])][c] * BlurWeight(d[1], d[2])
               ELSE 0
  IN  RoundDiv(At(<<-1, -1>>) + At(<<0, -1>>) + At(<<1, -1>>)
             + At(<<-1, 0>>)  + At(<<0, 0>>)  + At(<<1, 0>>)
             + At(<<-1, 1>>)  + At(<<0, 1>>)  + At(<<1, 1>>), 16)

\* ctx.filter = 'blur(1px)' applied to the image being drawn
Blur(store, width, height) ==
  [i \in DOMAIN store |->
     LET x == i % width
         y == i \div width
     IN  Pixel(BlurChannel(store, "r", x, y, width, height),
               BlurChannel(store, "g", x, y, width, height),
               BlurChannel(store, "b", x, y, width, height),
               BlurChannel(store, "a", x, y, width, height))]

(***************************************************************************)
(* createEnhancedMask, applyEdgeSmoothing, applyMaskWithSmoothing          *)
(***************************************************************************)
MutToMask(seg) ==
  [i \in DOMAIN seg |-> IF seg[i] = 1 THEN Pixel(0, 0, 0, 255) ELSE Pixel(0, 0, 0, 0)]

\* bodyPix.toMask(segmentation) with the library's default colours:
\* foreground (person, id 1) {r:0,g:0,b:0,a:0}, background {r:0,g:0,b:0,a:255}.
toMask(seg) ==
  [i \in DOMAIN seg |-> IF seg[i] = 1 THEN Pixel(0, 0, 0, 0) ELSE Pixel(0, 0, 0, 255)]

\* if (data[i] > 128) data[i] = data[i+1] = data[i+2] = 255 else ... = 0;
\* data[i + 3] is not written.
MutRebinarize(p) == IF p.r >= 128 THEN Pixel(255, 255, 255, p.a) ELSE Pixel(0, 0, 0, p.a)

Rebinarize(p) == IF p.r > 128 THEN Pixel(255, 255, 255, p.a) ELSE Pixel(0, 0, 0, p.a)

\* for (let i = 0; i < data.length; i += 4) { ... }
RebinarizeLoop(data) == [i \in DOMAIN data |-> Rebinarize(data[i])]

\* The canvas is drawn onto itself through the blur filter (source-over);
\* a context without ctx.filter draws it unfiltered.
applyEdgeSmoothing(store, width, height, filter) ==
  LET layer == IF filter THEN Blur(store, width, height) ELSE store
      drawn == [i \in DOMAIN store |-> SourceOver(layer[i], store[i])]
      data  == getImageData(drawn)
  IN  putImageData(RebinarizeLoop(data))

createEnhancedMask(seg, width, height, refine, filter) ==
  LET maskCanvas == putImageData(toMask(seg))
  IN  IF refine THEN applyEdgeSmoothing(maskCanvas, width, height, filter)
      ELSE maskCanvas

\* canvas.width = img.width; canvas.height = img.height (and the same for
\* originalCanvas)
CanvasSize(imgWidth, imgHeight) == <<imgWidth, imgHeight>>

MutMaskCanvasSize(width, height) == <<height, width>>

\* maskCanvas.width = width; maskCanvas.height = height
MaskCanvasSize(width, height) == <<width, height>>

\* ctx.getImageData(0, 0, width, height); new ImageData(result, width, height)
ImageDataSize(width, height) == <<width, height>>

\* The three buffers of applyMaskWithSmoothing.
OriginalImageData(store) == getImageData(store)

MaskedData(store, maskCanvas) ==
  getImageData([i \in DOMAIN store |-> DestinationIn(store[i], maskCanvas[i])])

applyMaskWithSmoothing(store, maskCanvas, width, height) ==
  putImageData(refineEdges(OriginalImageData(store), MaskedData(store, maskCanvas),
                           width, height))

(***************************************************************************)
(* SpecRefine: inputs of refineEdges                                       *)
(***************************************************************************)
\* Alpha values of the input: pixels of the chosen set carry `hi', the
\* others `lo'.  128/129 straddle the neighbour test, 0/1 the === 0 test.
HiAlphas == {128, 129, 255}
LoAlphas == {0, 1}

Sizes == { s \in (1 .. MaxPixels) \X (1 .. MaxPixels) : s[1] * s[2] <= MaxPixels }

OriginalColor(i) == Pixel((i * 23 + 200) % 256, (i * 41 + 120) % 256, (i * 67 + 37) % 256, 255)
MaskedColor(i, alpha) == Pixel((i * 29 + 14) % 256, (i * 53 + 77) % 256, (i * 11 + 150) % 256, alpha)

PipeIdle ==
  /\ pstage = "idle"
  /\ pw = 0 /\ ph = 0
  /\ pimg = <<>>
  /\ refinement = TRUE
  /\ filterSupported = TRUE
  /\ segmentation = <<>>
  /\ pCanvas = <<>>
  /\ pMaskCanvas = <<>>
  /\ pResult = <<>>
  /\ pOriginalCanvas = <<>>
  /\ pOriginalData = <<>>
  /\ pMaskedData = <<>>
  /\ pdims = <<>>

RebinIdle ==
  /\ bstage = "idle"
  /\ bData = <<>>
  /\ bOnce = <<>>
  /\ bTwice = <<>>

RefineIdle ==
  /\ rstage = "idle"
  /\ rw = 0 /\ rh = 0
  /\ rOriginal = <<>>
  /\ rMasked = <<>>
  /\ rResult = <<>>

\* No handler call has been observed.
NoObs == [op |-> "none"]
Quiet == obs = NoObs

UIIdle ==
  /\ obs = NoObs
  /\ variant = "none"
  /\ originalImage = 0
  /\ processedImage = 0
  /\ loading = FALSE
  /\ model = FALSE
  /\ modelLoading = FALSE
  /\ error = FALSE
  /\ canvas = 0
  /\ onResults = 0
  /\ reqs = <<>>
  /\ reads = {}
  /\ loads = 0
  /\ nloads = 0

InitRefine ==
  /\ UIIdle
  /\ PipeIdle
  /\ RebinIdle
  /\ rstage = "in"
  /\ \E s \in Sizes :
       /\ rw = s[1]
       /\ rh = s[2]
       /\ rOriginal = [i \in Indices(s[1], s[2]) |-> OriginalColor(i)]
       /\ \E kept \in SUBSET Indices(s[1], s[2]), hi \in HiAlphas, lo \in LoAlphas :
            rMasked = [i \in Indices(s[1], s[2]) |->
                         MaskedColor(i, IF i \in kept THEN hi ELSE lo)]
  /\ rResult = <<>>

RefineEdges ==
  /\ rstage = "in"
  /\ rstage' = "out"
  /\ rResult' = refineEdges(rOriginal, rMasked, rw, rh)
  /\ UNCHANGED <<rw, rh, rOriginal, rMasked>>
  /\ UNCHANGED pvars
  /\ UNCHANGED uvars
  /\ UNCHANGED <<ovars, bvars>>

NextRefine == RefineEdges

SpecRefine == InitRefine /\ [][NextRefine]_vars

(***************************************************************************)
(* SpecPipe: the pixel pipeline of removeBackground                        *)
(***************************************************************************)
\* Two opaque source images; neighbouring pixels differ in colour.
SourceKinds == {0, 1}
SourceColor(k, i) ==
  Pixel((i * 23 + 200 + 90 * k) % 256, (i * 41 + 120 + 55 * k) % 256,
        (i * 67 + 37 + 170 * k) % 256, 255)

\* Segmentations: every pixel labelled `base' except the pixels picked.
Segmentations(width, height) ==
  { [i \in Indices(width, height) |->
       IF \E n \in 1 .. MaxFlipped : picks[n] = i THEN 1 - base ELSE base] :
    base \in {0, 1},
    picks \in [1 .. MaxFlipped -> -1 .. (width * height - 1)] }

\* canvas.width = img.width; canvas.height = img.height; ctx.drawImage(img, 0, 0)
InitPipe ==
  /\ UIIdle
  /\ RefineIdle
  /\ RebinIdle
  /\ pstage = "drawn"
  /\ pw \in 1 .. MaxDim
  /\ ph \in 1 .. MaxDim
  /\ \E k \in SourceKinds : pimg = [i \in Indices(pw, ph) |-> SourceColor(k, i)]
  /\ refinement \in BOOLEAN
  /\ filterSupported \in BOOLEAN
  /\ segmentation = <<>>
  /\ pCanvas = drawImage(pimg)
  /\ pMaskCanvas = <<>>
  /\ pResult = <<>>
  /\ pOriginalCanvas = drawImage(pimg)
  /\ pOriginalData = <<>>
  /\ pMaskedData = <<>>
  /\ pdims = [b \in {"canvas", "originalCanvas"} |-> CanvasSize(pw, ph)]

\* const segmentation = await model.segmentPerson(originalCanvas, ...)
SegmentPerson ==
  /\ pstage = "drawn"
  /\ pstage' = "segmented"
  /\ segmentation' \in Segmentations(pw, ph)
  \* the segmentation has the size of the canvas it was computed from
  /\ pdims' = pdims @@ ("segmentation" :> pdims["originalCanvas"])
  /\ UNCHANGED <<pw, ph, pimg, refinement, filterSupported, pCanvas, pMaskCanvas, pResult,
                 pOriginalCanvas, pOriginalData, pMaskedData>>
  /\ UNCHANGED rvars
  /\ UNCHANGED uvars
  /\ UNCHANGED <<ovars, bvars>>

\* const mask = await createEnhancedMask(segmentation, img.width, img.height)
CreateEnhancedMask ==
  /\ pstage = "segmented"
  /\ pstage' = "masked"
  /\ pMaskCanvas' = createEnhancedMask(segmentation, pw, ph, refinement, filterSupported)
  \* bodyPix.toMask returns an ImageData of the segmentation's size
  /\ pdims' = pdims @@ ("mask" :> pdims["segmentation"])
                     @@ ("maskCanvas" :> MaskCanvasSize(pw, ph))
  /\ UNCHANGED <<pw, ph, pimg, refinement, filterSupported, segmentation, pCanvas, pResult,
                 pOriginalCanvas, pOriginalData, pMaskedData>>
  /\ UNCHANGED rvars
  /\ UNCHANGED uvars
  /\ UNCHANGED <<ovars, bvars>>

\* applyMaskWithSmoothing(ctx, mask, img.width, img.height)
ApplyMaskWithSmoothing ==
  /\ pstage = "masked"
  /\ pstage' = "composited"
  /\ pCanvas' = applyMaskWithSmoothing(pCanvas, pMaskCanvas, pw, ph)
  /\ LET inputs == refineEdgesInputs(OriginalImageData(pCanvas),
                                     MaskedData(pCanvas, pMaskCanvas), pw, ph)
     IN  /\ pOriginalData' = inputs.original
         /\ pMaskedData' = inputs.masked
  /\ pdims' = pdims @@ [b \in {"originalImageData", "maskedData", "refinedData"} |->
                          ImageDataSize(pw, ph)]
  /\ UNCHANGED <<pw, ph, pimg, refinement, filterSupported, segmentation, pMaskCanvas, pResult,
                 pOriginalCanvas>>
  /\ UNCHANGED rvars
  /\ UNCHANGED uvars
  /\ UNCHANGED <<ovars, bvars>>

\* const resultUrl = canvas.toDataURL('image/png')
ToDataURL ==
  /\ pstage = "composited"
  /\ pstage' = "encoded"
  /\ pResult' = toDataURL(pCanvas)
  \* the PNG has the size of the canvas
  /\ pdims' = pdims @@ ("result" :> pdims["canvas"])
  /\ UNCHANGED <<pw, ph, pimg, refinement, filterSupported, segmentation, pCanvas, pMaskCanvas,
                 pOriginalCanvas, pOriginalData, pMaskedData>>
  /\ UNCHANGED rvars
  /\ UNCHANGED uvars
  /\ UNCHANGED <<ovars, bvars>>

NextPipe ==
  \/ SegmentPerson
  \/ CreateEnhancedMask
  \/ ApplyMaskWithSmoothing
  \/ ToDataURL

SpecPipe == InitPipe /\ [][NextPipe]_vars

(***************************************************************************)
(* SpecRebin: the re-binarization loop of applyEdgeSmoothing               *)
(***************************************************************************)
\* Channel values on both sides of the split, and its two end points.
RebinValues == {0, 1, 127, 128, 129, 254, 255}
\* Grey pixels (r = g = b) and pixels whose green and blue differ from red,
\* at three alphas.
RebinPixels ==
  { Pixel(v, IF grey THEN v ELSE 77, IF grey THEN v ELSE 77, a) :
      v \in RebinValues, grey \in BOOLEAN, a \in {0, 128, 255} }

InitRebin ==
  /\ UIIdle
  /\ PipeIdle
  /\ RefineIdle
  /\ bstage = "in"
  /\ \E n \in 1 .. MaxRebinPixels : bData \in [0 .. n - 1 -> RebinPixels]
  /\ bOnce = <<>>
  /\ bTwice = <<>>

\* the loop of applyEdgeSmoothing runs over imageData.data
RebinarizeOnce ==
  /\ bstage = "in"
  /\ bstage' = "once"
  /\ bOnce' = RebinarizeLoop(bData)
  /\ UNCHANGED <<bData, bTwice>>
  /\ UNCHANGED <<uvars, rvars, pvars, ovars>>

\* the loop runs over its own output
RebinarizeAgain ==
  /\ bstage = "once"
  /\ bstage' = "twice"
  /\ bTwice' = RebinarizeLoop(bOnce)
  /\ UNCHANGED <<bData, bOnce>>
  /\ UNCHANGED <<uvars, rvars, pvars, ovars>>

NextRebin ==
  \/ RebinarizeOnce
  \/ RebinarizeAgain

SpecRebin == InitRebin /\ [][NextRebin]_vars

(***************************************************************************)
(* Spec: the component                                                     *)
(***************************************************************************)
\* "mediapipe": src/components/BackgroundRemover.js (MediaPipe selfie
\* segmentation); "bodypix": src/unnamed/part_001 (BodyPix, plain mask);
\* "enhanced": src/unnamed/part_000 (BodyPix with edge refinement).
Variants == {"mediapipe", "bodypix", "enhanced"}

HasErrorState == variant # "enhanced"

\* file.size > 5 * 1024 * 1024 (10 * 1024 * 1024 in the enhanced version)
SizeLimit == IF variant = "enhanced" THEN 10 * 1024 * 1024 ELSE 5 * 1024 * 1024

FileSizes == {5 * 1024 * 1024, 5 * 1024 * 1024 + 1, 10 * 1024 * 1024, 10 * 1024 * 1024 + 1}
FileTypes == {"image/png", "text/plain"}

\* file.type.startsWith('image/')
IsImageType(t) == t = "image/png"

Files == [id : 1 .. MaxFiles, size : FileSizes, type : FileTypes]

\* SpecObserved: the uploads made before the observed call are of files that
\* every version accepts; the observed upload is of any size and type.
PlainFiles == { file \in Files : file.size = 5 * 1024 * 1024 /\ file.type = "image/png" }
ObservedFiles == { file \in Files : file.id = 1 }

\* A removeBackground call: the originalImage its closure captured, where it
\* is suspended, how often it invoked the segmentation backend, whether the
\* backend failed for it and whether it reported a failure to the user;
\* prev records the processedImage displayed when the call started.
\*   "decode"   awaiting img.onload / img.onerror
\*   "segment"  awaiting the segmentation result
\*   "orphaned" awaiting a promise that nothing will settle any more
\*   "published", "failed"  returned
NewRequest(img) ==
  [img |-> img, pc |-> "decode", calls |-> 0, backendFailed |-> FALSE, surfaced |-> FALSE,
   prev |-> processedImage]

InFlight == { k \in DOMAIN reqs : reqs[k].pc \in {"decode", "segment", "orphaned"} }

Init ==
  /\ PipeIdle
  /\ RefineIdle
  /\ RebinIdle
  /\ obs = NoObs
  /\ variant \in Variants
  /\ originalImage = 0
  /\ processedImage = 0
  /\ loading = FALSE
  /\ model = FALSE
  \* useEffect(() => { loadModel(); }, [selectedModel]) has run on mount
  /\ modelLoading = (variant = "enhanced")
  /\ loads = (IF variant = "enhanced" THEN 1 ELSE 0)
  /\ nloads = (IF variant = "enhanced" THEN 1 ELSE 0)
  /\ error = FALSE
  /\ canvas = 0
  /\ onResults = 0
  /\ reqs = <<>>
  /\ reads = {}

\* disabled={modelLoading || model}; disabled={modelLoading} in the enhanced version
LoadButtonEnabled ==
  IF variant = "enhanced" THEN ~modelLoading ELSE ~modelLoading /\ ~model

\* loadModel up to its first await
LoadModel ==
  /\ LoadButtonEnabled
  /\ nloads < MaxLoads
  /\ modelLoading' = TRUE
  /\ error' = (IF HasErrorState THEN FALSE ELSE error)
  /\ loads' = loads + 1
  /\ nloads' = nloads + 1
  /\ UNCHANGED <<variant, originalImage, processedImage, loading, model, canvas,
                 onResults, reqs, reads>>
  /\ UNCHANGED <<rvars, pvars, ovars, bvars>>

\* the load resolves: setModel(loadedModel); setModelLoading(false)
LoadModelSucceeds ==
  /\ loads > 0
  /\ loads' = loads - 1
  /\ model' = TRUE
  /\ modelLoading' = FALSE
  /\ UNCHANGED <<variant, originalImage, processedImage, loading, error, canvas,
                 onResults, reqs, reads, nloads>>
  /\ UNCHANGED <<rvars, pvars, ovars, bvars>>

MutLoadModelFails ==
  /\ loads > 0
  /\ loads' = loads - 1
  /\ error' = (IF HasErrorState THEN TRUE ELSE error)
  /\ UNCHANGED <<variant, originalImage, processedImage, loading, model, modelLoading,
                 canvas, onResults, reqs, reads, nloads>>
  /\ UNCHANGED <<rvars, pvars, ovars, bvars>>

\* the load rejects: catch { setError(...) } (console.error only in the
\* enhanced version); setModelLoading(false)
LoadModelFails ==
  /\ loads > 0
  /\ loads' = loads - 1
  /\ error' = (IF HasErrorState THEN TRUE ELSE error)
  /\ modelLoading' = FALSE
  /\ UNCHANGED <<variant, originalImage, processedImage, loading, model, canvas,
                 onResults, reqs, reads, nloads>>
  /\ UNCHANGED <<rvars, pvars, ovars, bvars>>

\* The file input is rendered under {model && ...}; in the enhanced version
\* its button is disabled={!model}.
UploadEnabled == model

MutTooLarge(file) == file.size >= SizeLimit

\* if (file.size > 5 * 1024 * 1024); 10 * 1024 * 1024 in the enhanced version
TooLarge(file) == file.size > SizeLimit

\* if (!file.type.startsWith('image/')); the enhanced version has no such check
WrongType(file) == HasErrorState /\ ~IsImageType(file.type)

\* handleFileUpload with a file chosen:
\*   too large: setError(...) (alert(...) in the enhanced version); return
\*   not an image: setError(...); return
\*   else setError(null); reader.readAsDataURL(file)
handleFileUpload(file) ==
  IF TooLarge(file)
    THEN /\ error' = (IF HasErrorState THEN TRUE ELSE error)
         /\ UNCHANGED reads
    ELSE IF WrongType(file)
      THEN /\ error' = TRUE
           /\ UNCHANGED reads
      ELSE /\ error' = (IF HasErrorState THEN FALSE ELSE error)
           /\ reads' = reads \cup {file.id}

\* alert('Please select an image smaller than 10MB')
Alerted(file) == variant = "enhanced" /\ TooLarge(file)

\* the user chooses a file
HandleFileUpload(file) ==
  /\ UploadEnabled
  /\ handleFileUpload(file)
  /\ UNCHANGED <<variant, originalImage, processedImage, loading, model, modelLoading,
                 canvas, onResults, reqs, loads, nloads>>
  /\ UNCHANGED <<rvars, pvars, ovars, bvars>>

\* What handleFileUpload and the reader callbacks it installs may touch.
Uploaded ==
  [originalImage |-> originalImage, processedImage |-> processedImage,
   error |-> error, reads |-> reads]

\* the observed upload: the file, whether the handler raised an alert, and
\* the state it was called in are recorded
HandleFileUploadObserved(file) ==
  /\ Quiet
  /\ UploadEnabled
  /\ handleFileUpload(file)
  /\ obs' = [op |-> "handleFileUpload", file |-> file, alerted |-> Alerted(file),
             before |-> Uploaded]
  /\ UNCHANGED <<variant, originalImage, processedImage, loading, model, modelLoading,
                 canvas, onResults, reqs, loads, nloads>>
  /\ UNCHANGED <<rvars, pvars, bvars>>

\* reader.onload: setOriginalImage(e.target.result); setProcessedImage(null)
ReaderLoad(id) ==
  /\ id \in reads
  /\ reads' = reads \ {id}
  /\ originalImage' = id
  /\ processedImage' = 0
  /\ UNCHANGED <<variant, loading, model, modelLoading, error, canvas, onResults,
                 reqs, loads, nloads>>
  /\ UNCHANGED <<rvars, pvars, ovars, bvars>>

\* reader.onerror = () => setError('Error reading file'); the enhanced
\* version sets no onerror
ReaderError(id) ==
  /\ id \in reads
  /\ reads' = reads \ {id}
  /\ error' = (IF HasErrorState THEN TRUE ELSE error)
  /\ UNCHANGED <<variant, originalImage, processedImage, loading, model, modelLoading,
                 canvas, onResults, reqs, loads, nloads>>
  /\ UNCHANGED <<rvars, pvars, ovars, bvars>>

\* resetApp; its buttons are rendered under {error && ...} and
\* {originalImage && ...}.  The enhanced version has no resetApp.
ResetApp ==
  /\ HasErrorState
  /\ error \/ originalImage # 0
  /\ originalImage' = 0
  /\ processedImage' = 0
  /\ error' = FALSE
  /\ UNCHANGED <<variant, loading, model, modelLoading, canvas, onResults, reqs,
                 reads, loads, nloads>>
  /\ UNCHANGED <<rvars, pvars, ovars, bvars>>

MutRemoveButtonEnabled ==
  /\ originalImage # 0
  /\ (variant = "enhanced" => model)

\* {originalImage && ... <button onClick={removeBackground} disabled={loading}>};
\* disabled={loading || !model} in the enhanced version
RemoveButtonEnabled ==
  /\ originalImage # 0
  /\ ~loading
  /\ (variant = "enhanced" => model)

MutremoveBackground ==
  /\ loading' = TRUE
  /\ IF ~model \/ originalImage = 0
       THEN UNCHANGED <<error, reqs>>
       ELSE /\ error' = (IF HasErrorState THEN FALSE ELSE error)
            /\ reqs' = Append(reqs, NewRequest(originalImage))

\* removeBackground up to its first await:
\*   if (!model || !originalImage) return;
\*   setLoading(true); setError(null); try { ... await new Promise(...)
removeBackground ==
  IF ~model \/ originalImage = 0
    THEN UNCHANGED <<loading, error, reqs>>
    ELSE /\ loading' = TRUE
         /\ error' = (IF HasErrorState THEN FALSE ELSE error)
         /\ reqs' = Append(reqs, NewRequest(originalImage))

\* the user clicks the remove button
RemoveBackground ==
  /\ RemoveButtonEnabled
  /\ Len(reqs) < MaxRequests
  /\ removeBackground
  /\ UNCHANGED <<variant, originalImage, processedImage, model, modelLoading, canvas,
                 onResults, reads, loads, nloads>>
  /\ UNCHANGED <<rvars, pvars, ovars, bvars>>

\* What a call of removeBackground may touch before its first await.
Touched ==
  [loading |-> loading, error |-> error, processedImage |-> processedImage,
   canvas |-> canvas, onResults |-> onResults, reqs |-> reqs]

\* removeBackground is invoked while no model is loaded or no source image
\* is present (the buttons never do this: the call comes from elsewhere).
RemoveBackgroundNotReady ==
  /\ Quiet
  /\ ~model \/ originalImage = 0
  /\ removeBackground
  /\ obs' = [op |-> "removeBackground", before |-> Touched]
  /\ UNCHANGED <<variant, originalImage, processedImage, model, modelLoading, canvas,
                 onResults, reads, loads, nloads>>
  /\ UNCHANGED <<rvars, pvars, bvars>>

\* img.onload: the canvas is sized and the image drawn, then the
\* segmentation backend is invoked (model.segmentPerson; MediaPipe:
\* model.onResults(callback) and model.send)
ImageLoaded(k) ==
  /\ k \in DOMAIN reqs
  /\ reqs[k].pc = "decode"
  /\ canvas' = reqs[k].img
  /\ onResults' = (IF variant = "mediapipe" THEN k ELSE onResults)
  /\ reqs' = [reqs EXCEPT ![k].pc = "segment", ![k].calls = @ + 1]
  /\ UNCHANGED <<variant, originalImage, processedImage, loading, model, modelLoading,
                 error, reads, loads, nloads>>
  /\ UNCHANGED <<rvars, pvars, ovars, bvars>>

\* img.onerror = reject, then catch { setError } and setLoading(false); the
\* enhanced version sets no onerror and its promise never settles
ImageLoadError(k) ==
  /\ k \in DOMAIN reqs
  /\ reqs[k].pc = "decode"
  /\ IF variant = "enhanced"
       THEN /\ reqs' = [reqs EXCEPT ![k].pc = "orphaned"]
            /\ UNCHANGED <<error, loading>>
       ELSE /\ reqs' = [reqs EXCEPT ![k].pc = "failed", ![k].surfaced = TRUE]
            /\ error' = TRUE
            /\ loading' = FALSE
  /\ UNCHANGED <<variant, originalImage, processedImage, model, modelLoading, canvas,
                 onResults, reads, loads, nloads>>
  /\ UNCHANGED <<rvars, pvars, ovars, bvars>>

\* The segmentation backend delivers a result to request k.
\*   enhanced:  mask built and applied on the canvas, canvas.toDataURL,
\*              setProcessedImage, setLoading(false)
\*   bodypix:   model.toMask is not a function of the loaded model (toMask is
\*              an export of the body-pix module): TypeError, caught
\*   mediapipe: the registered onResults callback draws and resolves its
\*              request, which encodes the canvas and publishes
SegmentationDone(k) ==
  /\ k \in DOMAIN reqs
  /\ reqs[k].pc = "segment"
  /\ CASE variant = "enhanced" ->
            /\ reqs' = [reqs EXCEPT ![k].pc = "published"]
            /\ processedImage' = canvas
            /\ loading' = FALSE
            /\ UNCHANGED <<error, canvas>>
       [] variant = "bodypix" ->
            /\ reqs' = [reqs EXCEPT ![k].pc = "failed", ![k].surfaced = TRUE]
            /\ error' = TRUE
            /\ loading' = FALSE
            /\ UNCHANGED <<processedImage, canvas>>
       [] OTHER ->
            LET o == onResults IN
            IF o \in DOMAIN reqs /\ reqs[o].pc = "segment"
              THEN /\ canvas' = reqs[o].img
                   /\ reqs' = [j \in DOMAIN reqs |->
                                 IF j = o THEN [reqs[j] EXCEPT !.pc = "published"]
                                 ELSE IF j = k THEN [reqs[j] EXCEPT !.pc = "orphaned"]
                                 ELSE reqs[j]]
                   /\ processedImage' = reqs[o].img
                   /\ loading' = FALSE
                   /\ UNCHANGED error
              ELSE /\ reqs' = [reqs EXCEPT ![k].pc = "orphaned"]
                   /\ UNCHANGED <<canvas, processedImage, loading, error>>
  /\ UNCHANGED <<variant, originalImage, model, modelLoading, onResults, reads,
                 loads, nloads>>
  /\ UNCHANGED <<rvars, pvars, ovars, bvars>>

MutSegmentationFails(k) ==
  /\ k \in DOMAIN reqs
  /\ reqs[k].pc = "segment"
  /\ reqs' = [reqs EXCEPT ![k].pc = "failed", ![k].backendFailed = TRUE,
                           ![k].surfaced = TRUE]
  /\ error' = (IF HasErrorState THEN TRUE ELSE error)
  /\ loading' = FALSE
  /\ processedImage' = canvas
  /\ UNCHANGED <<variant, originalImage, model, modelLoading, canvas,
                 onResults, reads, loads, nloads>>
  /\ UNCHANGED <<rvars, pvars, ovars, bvars>>

\* The segmentation backend fails for request k.
\*   bodypix:   await model.segmentPerson rejects: catch { setError },
\*              setLoading(false)
\*   enhanced:  the same with alert(...)
\*   mediapipe: model.send(...) is neither awaited nor returned; its
\*              rejection reaches no handler and the awaited promise is
\*              never settled
SegmentationFails(k) ==
  /\ k \in DOMAIN reqs
  /\ reqs[k].pc = "segment"
  /\ IF variant = "mediapipe"
       THEN /\ reqs' = [reqs EXCEPT ![k].pc = "orphaned", ![k].backendFailed = TRUE]
            /\ UNCHANGED <<error, loading>>
       ELSE /\ reqs' = [reqs EXCEPT ![k].pc = "failed", ![k].backendFailed = TRUE,
                                    ![k].surfaced = TRUE]
            /\ error' = (IF HasErrorState THEN TRUE ELSE error)
            /\ loading' = FALSE
  /\ UNCHANGED <<variant, originalImage, processedImage, model, modelLoading, canvas,
                 onResults, reads, loads, nloads>>
  /\ UNCHANGED <<rvars, pvars, ovars, bvars>>

Next ==
  \/ LoadModel
  \/ LoadModelSucceeds
  \/ LoadModelFails
  \/ \E file \in Files : HandleFileUpload(file)
  \/ \E id \in 1 .. MaxFiles : ReaderLoad(id)
  \/ \E id \in 1 .. MaxFiles : ReaderError(id)
  \/ ResetApp
  \/ RemoveBackground
  \/ \E k \in 1 .. MaxRequests : ImageLoaded(k)
  \/ \E k \in 1 .. MaxRequests : ImageLoadError(k)
  \/ \E k \in 1 .. MaxRequests : SegmentationDone(k)
  \/ \E k \in 1 .. MaxRequests : SegmentationFails(k)

Spec == Init /\ [][Next]_vars

\* The component, up to one observed handler call.
NextObserved ==
  \/ Quiet /\ LoadModel
  \/ Quiet /\ LoadModelSucceeds
  \/ Quiet /\ LoadModelFails
  \/ Quiet /\ \E file \in PlainFiles : HandleFileUpload(file)
  \/ Quiet /\ \E id \in 1 .. MaxFiles : ReaderLoad(id)
  \/ Quiet /\ \E id \in 1 .. MaxFiles : ReaderError(id)
  \/ Quiet /\ ResetApp
  \/ Quiet /\ RemoveBackground
  \/ Quiet /\ \E k \in 1 .. MaxRequests : ImageLoaded(k)
  \/ Quiet /\ \E k \in 1 .. MaxRequests : ImageLoadError(k)
  \/ Quiet /\ \E k \in 1 .. MaxRequests : SegmentationDone(k)
  \/ Quiet /\ \E k \in 1 .. MaxRequests : SegmentationFails(k)
  \/ RemoveBackgroundNotReady
  \/ \E file \in ObservedFiles : HandleFileUploadObserved(file)

SpecObserved == Init /\ [][NextObserved]_vars

(***************************************************************************)
(* Properties of the component (Spec)                                      *)
(***************************************************************************)
\* C8: the displayed processedImage is never a result computed from an
\* image other than the current originalImage (an abandoned request's
\* result is not published).
C8_AbandonedResultDiscarded ==
  processedImage # 0 => processedImage = originalImage

\* C9: at most one removal request is in flight, and while one is in
\* flight loading is set and the shared canvas holds nothing but that
\* request's image.
C9_SingleRequest ==
  /\ Cardinality(InFlight) <= 1
  /\ \A k \in InFlight :
       /\ loading
       /\ reqs[k].pc \in {"segment"} => canvas = reqs[k].img

\* A second request is in flight, after the first has returned, while the
\* user has already selected another image than the one it works on.
C9_Witness ==
  /\ Len(reqs) >= 2
  /\ \E k \in InFlight :
       /\ reqs[k].pc = "segment"
       /\ originalImage # 0
       /\ originalImage # reqs[k].img

\* C10: a request whose segmentation call failed has reported a failure to
\* the user, and no request invokes the backend more than once.
C10_BackendFailureSurfaced ==
  \A k \in DOMAIN reqs :
    /\ reqs[k].backendFailed => reqs[k].surfaced
    /\ reqs[k].calls <= 1

\* Request k fails in this step: its call returns through the catch block,
\* or its backend call fails, or its decoder reports an error.
RequestFails(k) ==
  /\ k \in DOMAIN reqs
  /\ reqs[k].pc \in {"decode", "segment"}
  /\ \/ reqs'[k].pc = "failed"
     \/ reqs'[k].backendFailed /\ ~reqs[k].backendFailed
     \/ reqs[k].pc = "decode" /\ reqs'[k].pc = "orphaned"

\* C11 as stated: when a removal request fails, processedImage after the
\* failure equals processedImage before the request started.
C11_FailureRestoresPrevious ==
  [][\A k \in 1 .. MaxRequests : RequestFails(k) => processedImage' = reqs[k].prev]_vars

\* C11 amended: the step in which a removal request fails does not change
\* processedImage, and the value it leaves is the one displayed when the
\* request started unless an upload or a reset cleared it in the meantime
\* (then it is null); a failing request publishes nothing.
C11_FailureKeepsResult ==
  [][\A k \in 1 .. MaxRequests :
       RequestFails(k) => /\ processedImage' = processedImage
                          /\ processedImage' \in {reqs[k].prev, 0}]_vars

\* A request has failed while an earlier result is displayed, and that
\* result is still displayed.
C11_Witness ==
  \E k \in DOMAIN reqs :
    /\ reqs[k].pc = "failed"
    /\ reqs[k].prev # 0
    /\ processedImage = reqs[k].prev

\* C12: a call of removeBackground made while no model is loaded or no
\* source image is present leaves loading, error, processedImage and the
\* canvas as they were and reaches no backend (no request is created, no
\* callback registered, no backend call counted).
C12_NotReadyNoWork ==
  obs.op = "removeBackground" => Touched = obs.before

\* Such a call has been made, with a model but without a source image,
\* while an earlier request was still in flight.
C12_Witness ==
  /\ obs.op = "removeBackground"
  /\ model /\ originalImage = 0 /\ loading

\* The decoder or the segmentation backend reports to request k.
RequestStep(k) ==
  \/ ImageLoaded(k)
  \/ ImageLoadError(k)
  \/ SegmentationDone(k)
  \/ SegmentationFails(k)

\* C17: every removal request terminates.  loading is cleared only by a
\* step of a request, so while loading is set some request still has a
\* report of the decoder or of the backend to wait for; otherwise both have
\* reported and loading stays set for ever.
C17_RequestTerminates ==
  loading => \E k \in DOMAIN reqs : ENABLED RequestStep(k)

\* C18: in every reachable state a non-null processedImage is accompanied
\* by a non-null originalImage.
C18_ResultHasSource ==
  processedImage # 0 => originalImage # 0

\* The uploads the claim calls rejected and accepted, in its own terms.
ClaimedLimit == IF variant = "enhanced" THEN 10 * 1024 * 1024 ELSE 5 * 1024 * 1024
ClaimedRejected(file) ==
  \/ file.size > ClaimedLimit
  \/ variant # "enhanced" /\ file.type # "image/png"
ClaimedAccepted(file) ==
  /\ file.size = ClaimedLimit
  /\ variant # "enhanced" => file.type = "image/png"

\* C19: handleFileUpload with a file larger than the limit (5 MiB; 10 MiB in
\* the refinement variant) or, in the 5 MiB variants, a non-image type,
\* reports an error (the error state; an alert in the refinement variant),
\* starts no read and leaves originalImage and processedImage unchanged; a
\* file of exactly the limit size is accepted: its read is started and no
\* error is reported.
C19_RejectedUpload ==
  obs.op = "handleFileUpload" =>
    /\ originalImage = obs.before.originalImage
    /\ processedImage = obs.before.processedImage
    /\ ClaimedRejected(obs.file) =>
         /\ IF variant = "enhanced" THEN obs.alerted ELSE error
         /\ reads = obs.before.reads
    /\ ClaimedAccepted(obs.file) =>
         /\ ~obs.alerted
         /\ variant # "enhanced" => ~error
         /\ reads = obs.before.reads \cup {obs.file.id}

\* An upload has been rejected while a result was displayed, which is
\* still displayed with its source image.
C19_Witness ==
  /\ obs.op = "handleFileUpload"
  /\ ClaimedRejected(obs.file)
  /\ processedImage # 0
  /\ originalImage # 0

\* C20: model loading always settles.  When a loadModel attempt completes
\* modelLoading is false, and it is false whenever no attempt is pending;
\* model becomes non-null only in the step in which a load succeeds and is
\* never changed by a failed load; with no model and no attempt pending the
\* load button is enabled again; no request has called the segmentation
\* backend without a loaded model.
C20_ModelLoadingSettles ==
  /\ [](/\ loads = 0 => ~modelLoading
        /\ (~model /\ loads = 0) => LoadButtonEnabled
        /\ \A k \in DOMAIN reqs : reqs[k].calls > 0 => model)
  /\ [][/\ loads' < loads => ~modelLoading'
        /\ model' # model => (model' /\ LoadModelSucceeds)
        /\ LoadModelFails => model' = model]_vars

\* A first load has failed, a second one has succeeded, and a removal
\* request has then called the backend.
C20_Witness ==
  /\ variant # "enhanced"
  /\ nloads = 2 /\ loads = 0
  /\ model
  /\ \E k \in DOMAIN reqs : reqs[k].calls > 0

(***************************************************************************)
(* Properties of refineEdges (SpecRefine)                                  *)
(***************************************************************************)
XOf(i) == i % rw
YOf(i) == i \div rw

StrictlyInside(i) ==
  /\ XOf(i) > 0 /\ XOf(i) < rw - 1
  /\ YOf(i) > 0 /\ YOf(i) < rh - 1

OnBorder(i) == ~StrictlyInside(i)

\* The 8 neighbours of a pixel that lie inside the image.
Neighbours8(i) ==
  { j \in DOMAIN rMasked :
      /\ j # i
      /\ XOf(j) - XOf(i) \in -1 .. 1
      /\ YOf(j) - YOf(i) \in -1 .. 1 }

\* Number of the 8 neighbours whose alpha exceeds 128 in the mask as it was
\* before the pass.
KeptNeighboursBefore(i) == Cardinality({ j \in Neighbours8(i) : rMasked[j].a > 128 })

Flipped(i) == rMasked[i].a = 0 /\ rResult[i].a = 255

\* C2: refineEdges flips a pixel to alpha 255 exactly when the pixel has
\* alpha 0, lies strictly inside the image and at least 5 of its 8
\* neighbours have alpha > 128 in the mask as it was before the pass.
C2_FlipIffMajority ==
  rstage = "out" =>
    \A i \in DOMAIN rMasked :
      Flipped(i) <=> ( /\ rMasked[i].a = 0
                       /\ StrictlyInside(i)
                       /\ KeptNeighboursBefore(i) >= 5 )

\* Two adjacent interior pixels of which the first in scan order is flipped
\* and the second, with exactly 4 kept neighbours before the pass, is not.
C2_Witness ==
  /\ rstage = "out"
  /\ \E i, j \in DOMAIN rMasked :
       /\ j = i + 1
       /\ StrictlyInside(i) /\ StrictlyInside(j)
       /\ Flipped(i)
       /\ rMasked[j].a = 0
       /\ KeptNeighboursBefore(j) = 4
       /\ rResult[j].a = 0

\* C3: a pixel whose alpha was non-zero before refineEdges is returned
\* unchanged (alpha and RGB), and the only alpha change is 0 to 255.
C3_Monotone ==
  rstage = "out" =>
    \A i \in DOMAIN rMasked :
      /\ rMasked[i].a # 0 => rResult[i] = rMasked[i]
      /\ rResult[i].a # rMasked[i].a => (rMasked[i].a = 0 /\ rResult[i].a = 255)

\* An interior pixel with small non-zero alpha and a majority of kept
\* neighbours has been through the pass.
C3_Witness ==
  /\ rstage = "out"
  /\ \E i \in DOMAIN rMasked :
       /\ StrictlyInside(i)
       /\ rMasked[i].a = 1
       /\ KeptNeighboursBefore(i) >= 5

\* C7: for every image size, each pixel of the first or last row or column
\* has the same alpha and RGB after refineEdges as before it.
C7_BorderUntouched ==
  rstage = "out" =>
    \A i \in DOMAIN rMasked : OnBorder(i) => rResult[i] = rMasked[i]

\* A transparent pixel on the top edge whose 5 in-image neighbours are all
\* kept has been through the pass.
C7_Witness ==
  /\ rstage = "out"
  /\ rw >= 3 /\ rh >= 3
  /\ \E i \in DOMAIN rMasked :
       /\ YOf(i) = 0 /\ XOf(i) > 0 /\ XOf(i) < rw - 1
       /\ rMasked[i].a = 0
       /\ KeptNeighboursBefore(i) = 5

\* An image narrower than 3 pixels with a transparent pixel has been through
\* the pass.
C7_WitnessSmall ==
  /\ rstage = "out"
  /\ rw < 3
  /\ \E i \in DOMAIN rMasked : rMasked[i].a = 0 /\ KeptNeighboursBefore(i) >= 3

(***************************************************************************)
(* Properties of the pixel pipeline (SpecPipe)                             *)
(***************************************************************************)
\* The Mask Builder's decision for a pixel: the alpha toMask gives it.
MaskDecision(i) == toMask(segmentation)[i].a

SameRGB(p, q) == p.r = q.r /\ p.g = q.g /\ p.b = q.b

\* C1: with refinement disabled, the alpha of every pixel of the encoded
\* output equals the Mask Builder's decision (0 or 255) for that pixel.
C1_AlphaIsMaskDecision ==
  (pstage = "encoded" /\ ~refinement) =>
    \A i \in DOMAIN pResult : pResult[i].a = MaskDecision(i)

\* C4: every pixel of the encoded output with alpha > 0 has the RGB of the
\* same pixel of the source image.
C4_RGBPreserved ==
  pstage = "encoded" =>
    \A i \in DOMAIN pResult : pResult[i].a > 0 => SameRGB(pResult[i], pimg[i])

\* C5: with refinement enabled, every alpha of the mask handed to the
\* compositor, and every alpha of the encoded output, is 0 or 255.
C5_NoHalo ==
  (pstage = "encoded" /\ refinement) =>
    /\ \A i \in DOMAIN pMaskCanvas : pMaskCanvas[i].a \in {0, 255}
    /\ \A i \in DOMAIN pResult : pResult[i].a \in {0, 255}

C16_DimensionsPreserved ==
  /\ \A b \in DOMAIN pdims : pdims[b] = <<pw, ph>>
  /\ \A d \in {DOMAIN pCanvas, DOMAIN pOriginalCanvas, DOMAIN segmentation,
                 DOMAIN pMaskCanvas, DOMAIN pOriginalData, DOMAIN pMaskedData,
                 DOMAIN pResult} :
       d # {} => d = Indices(pw, ph)

\* A non-square image has gone through the whole pipeline.
C16_Witness ==
  /\ pstage = "encoded"
  /\ pw # ph
  /\ DOMAIN pdims = {"canvas", "originalCanvas", "segmentation", "mask", "maskCanvas",
                     "originalImageData", "maskedData", "refinedData", "result"}

\* C15: when the segmentation labels every pixel foreground (person), every
\* pixel of the output of the default pipeline (refinement on), border
\* pixels included, has alpha 255 and the RGB of the source pixel.
C15_AllForegroundKept ==
  (/\ pstage = "encoded"
   /\ refinement
   /\ \A i \in DOMAIN segmentation : segmentation[i] = 1)
  => \A i \in DOMAIN pResult : pResult[i].a = 255 /\ SameRGB(pResult[i], pimg[i])

\* C14: the re-binarization maps every value strictly above 128 to 255 and
\* every value at or below 128 to 0 (the value is the red channel, written
\* to red, green and blue; alpha is kept); grey 0 and grey 255 are fixed
\* points; applying it twice gives the same data as applying it once.
C14_Rebinarization ==
  /\ bstage \in {"once", "twice"} =>
       \A i \in DOMAIN bData :
         /\ bData[i].r > 128 => SameRGB(bOnce[i], Pixel(255, 255, 255, 0))
         /\ bData[i].r <= 128 => SameRGB(bOnce[i], Pixel(0, 0, 0, 0))
         /\ bOnce[i].a = bData[i].a
         /\ \A v \in {0, 255} :
              SameRGB(bData[i], Pixel(v, v, v, 0)) => bOnce[i] = bData[i]
  /\ bstage = "twice" => bTwice = bOnce

\* The loop has run twice over data holding the values 128 and 129.
C14_Witness ==
  /\ bstage = "twice"
  /\ \E i, j \in DOMAIN bData : bData[i].r = 128 /\ bData[j].r = 129

ScenarioC ==
  /\ pw = 5 /\ ph = 5
  /\ segmentation = [i \in Indices(5, 5) |-> IF i = 12 THEN 0 ELSE 1]

====
